---- MODULE Spec2Model ----
(***************************************************************************)
(* Model of news_bot.py: fetch_news, format_briefing, send_to_slack, main. *)
(*                                                                         *)
(* Two kinds of behaviour are modelled.  mode = "run" is one execution of  *)
(* main(): the categories of RSS_FEEDS are walked in order, every feed is  *)
(* fetched, the briefing is assembled, posted and the process exits.       *)
(* mode = "call" is one direct call of fetch_news(feed_urls, max_articles) *)
(* on an arbitrary list of feeds and an arbitrary positive cap.            *)
(*                                                                         *)
(* The outside world is the answer of feedparser.parse for a URL and the   *)
(* answer of requests.post; both are chosen nondeterministically.          *)
(*                                                                         *)
(* The file news_bot.py as committed holds, after the program (lines 1 to  *)
(* 150), a closing code fence and tutorial text (lines 151 to 283).  The   *)
(* interpreter compiles the whole file before it executes its first line,  *)
(* so a process started on the committed file ends with a SyntaxError.     *)
(* The variable `program` says which text is executed: the committed file, *)
(* or its lines 1 to 150 on their own.                                     *)
(*                                                                         *)
(* Specifications: RunSpec (runs of main), FairSpec (RunSpec with the      *)
(* interpreter making progress), CallSpec (direct calls of fetch_news),    *)
(* Spec (both).                                                            *)
(***************************************************************************)
EXTENDS Integers, Sequences, FiniteSets, TLC

VARIABLES
    program,            \* the text the interpreter is given: CommittedFile or ProgramLines
    mode,               \* "run": main() is executing; "call": fetch_news is called directly
    SLACK_WEBHOOK_URL,  \* module global read from the environment at import
    pc,                 \* position of the control flow: "start" before the file is compiled
    cat_i,              \* index of the category format_briefing is working on
    url_i,              \* index of the feed URL fetch_news is working on
    articles,           \* fetch_news: the local list `articles`
    message,            \* format_briefing: the local `message`, as a sequence of pieces
    total_articles,     \* format_briefing: the local counter
    returned,           \* what fetch_news returned for each category so far
    fetch_log,          \* per feed URL handled: what it added to `articles`, and whether it hit the except branch
    net,                \* every network call made so far, in order
    success,            \* main: result of send_to_slack: "True", "False"; "unset" before
    exit_code,          \* process exit status, -1 while running
    fault,              \* the exception that escaped to the top level, NoException if none
    call_in,            \* mode "call": the arguments of fetch_news
    call_out            \* mode "call": the result of fetch_news, once it is done

vars == << program, mode, SLACK_WEBHOOK_URL, pc, cat_i, url_i, articles, message,
           total_articles, returned, fetch_log, net, success, exit_code, fault,
           call_in, call_out >>

-----------------------------------------------------------------------------
(* Bounds of the model *)

\* Largest number of entries a feed answers with during a run of main()
MaxRunEntries == 4

\* Largest number of entries a feed answers with in a direct call of fetch_news
MaxCallEntries == 2

\* Largest number of feed URLs in a direct call of fetch_news
MaxUrls == 2

\* Largest value of max_articles in a direct call of fetch_news
MaxCap == 2

-----------------------------------------------------------------------------
(* Static configuration *)

\* Python's None
None == "None"

\* news_bot.py as committed: 283 lines, the program and the text after it
CommittedFile == "news_bot.py"

\* lines 1 to 150 of news_bot.py on their own: the program
ProgramLines == "news_bot.py[1:150]"

\* whether the interpreter can compile the text: the text after line 150
\* (a code fence, prose, characters such as U+2192) is not Python
Compiles(text) == text # CommittedFile

\* RSS_FEEDS: a dict, iterated in insertion order
RSS_FEEDS ==
    << [category |-> "Banking & Lending",
        feeds |-> << "https://www.americanbanker.com/feed",
                     "https://www.housingwire.com/feed/" >>],
       [category |-> "Salesforce",
        feeds |-> << "https://www.salesforceben.com/feed/" >>],
       [category |-> "Python & Tech",
        feeds |-> << "https://realpython.com/atom.xml" >>] >>

\* the cap format_briefing passes to fetch_news
BriefingCap == 3

\* str.upper() on the category names
Upper(s) ==
    CASE s = "Banking & Lending" -> "BANKING & LENDING"
      [] s = "Salesforce"        -> "SALESFORCE"
      [] s = "Python & Tech"     -> "PYTHON & TECH"
      [] OTHER                   -> s

\* values the environment variable can have: unset, set but empty, set
WebhookValues == { None, "", "https://hooks.slack.com/services/T/B/X" }

\* `not SLACK_WEBHOOK_URL`
Falsy(v) == v = None \/ v = ""

\* HTTP statuses the webhook answers with
Statuses == { 200, 204, 404, 500 }

\* raised by the interpreter when the file cannot be compiled
SyntaxError == "SyntaxError"

\* exceptions the outside world raises; all are subclasses of Exception
PyExceptions == { "URLError", "AttributeError", "TypeError", "ConnectionError", "Timeout" }

NoException == "none"

\* variant of ExceptCatches: only network errors are caught
ExceptCatchesNetworkOnly(e) == e \in { "URLError", "ConnectionError", "Timeout" }

\* `except Exception as e` catches every subclass of Exception
ExceptCatches(e) == e \in PyExceptions

-----------------------------------------------------------------------------
(* The outside world: what feedparser.parse answers *)

\* An entry of a feed.  kind "full": title, link and published present;
\* "bare": none of them present; "title_none": the title key holds None;
\* "bad": the entry is not a mapping, entry.get raises.
EntryKinds == { "full", "bare", "title_none", "bad" }

Entry(k, u, i) == [ kind |-> k, url |-> u, idx |-> i ]

\* entry.get(key, default)
EntryGet(e, key, default) ==
    CASE e.kind = "bare" -> default
      [] e.kind = "title_none" /\ key = "title" -> << None, "", 0 >>
      [] OTHER -> << key, e.url, e.idx >>

\* feed.feed.get('title', 'Unknown Source')
FeedTitle(resp, u) ==
    IF resp.title = "present" THEN << "feedtitle", u, 0 >>
                              ELSE << "Unknown Source", "", 0 >>

\* variant of PySlice: one entry too many is taken
PySliceOneMore(s, k) == SubSeq(s, 1, IF k + 1 < Len(s) THEN k + 1 ELSE Len(s))

\* s[:k] of Python
PySlice(s, k) ==
    LET n == IF k >= 0 THEN (IF k < Len(s) THEN k ELSE Len(s))
                       ELSE (IF Len(s) + k > 0 THEN Len(s) + k ELSE 0)
    IN  SubSeq(s, 1, n)

\* entry lists of length n over url u with at most one entry that is not
\* "full", that one of a kind in `kinds`
EntryLists(u, n, kinds) ==
    { [ i \in 1..n |-> Entry("full", u, i) ] } \cup
    { [ i \in 1..n |-> Entry(IF i = j THEN k ELSE "full", u, i) ] :
        j \in 1..n, k \in kinds \ { "full" } }

\* answers of feedparser.parse(u): it raises; or it returns a feed whose
\* title is present and whose entries hold at most one entry that is not
\* "full"; or it returns a feed of "full" entries whose title is absent or
\* cannot be read
Responses(u, maxn, kinds) ==
    { [ parse |-> "raise", title |-> "absent", entries |-> << >> ] } \cup
    { [ parse |-> "ok", title |-> t,
        entries |-> [ i \in 1..n |-> Entry("full", u, i) ] ] :
        t \in { "absent", "raise" }, n \in 0..maxn } \cup
    { [ parse |-> "ok", title |-> "present", entries |-> es ] :
        es \in UNION { EntryLists(u, n, kinds) : n \in 0..maxn } }

\* the answers considered during a run of main()
RunResponses(u) == Responses(u, MaxRunEntries, { "title_none", "bad" })

\* the answers considered in a direct call of fetch_news
CallResponses(u) == Responses(u, MaxCallEntries, EntryKinds)

\* the feed URLs of a direct call: its p-th URL
CallUrl(p) == ToString(p)

\* the argument list of a direct call made of n answers, one per URL
CallFeeds(rs) ==
    [ p \in 1..Len(rs) |-> [ url |-> CallUrl(p), resp |-> rs[p] ] ]

-----------------------------------------------------------------------------
(* fetch_news *)

\* the dict built for one entry
Article(e, source_name) ==
    [ title     |-> EntryGet(e, "title", << "No title", "", 0 >>),
      link      |-> EntryGet(e, "link", << "", "", 0 >>),
      source    |-> source_name,
      published |-> EntryGet(e, "published", << "Unknown date", "", 0 >>) ]

\* article['title'][:50] raises TypeError when the title is None
Sliceable(t) == t[1] # None

\* the loop over feed.entries[:max_articles]; the article is appended before
\* its title is sliced for the progress line
RECURSIVE ProcessEntries(_, _, _)
ProcessEntries(es, source_name, acc) ==
    IF es = << >> THEN [ articles |-> acc, exc |-> NoException ]
    ELSE LET e == Head(es) IN
         IF e.kind = "bad" THEN [ articles |-> acc, exc |-> "AttributeError" ]
         ELSE LET article == Article(e, source_name)
                  acc2 == Append(acc, article)
              IN  IF ~Sliceable(article.title)
                  THEN [ articles |-> acc2, exc |-> "TypeError" ]
                  ELSE ProcessEntries(Tail(es), source_name, acc2)

\* the body of the try block for one feed URL
TryFeed(resp, u, max_articles, acc) ==
    IF resp.parse = "raise" THEN [ articles |-> acc, exc |-> "URLError" ]
    ELSE IF resp.title = "raise" THEN [ articles |-> acc, exc |-> "AttributeError" ]
    ELSE ProcessEntries(PySlice(resp.entries, max_articles), FeedTitle(resp, u), acc)

\* one iteration of `for feed_url in feed_urls`, with its except branch:
\* a caught exception ends the iteration, any other escapes fetch_news
FetchFeedStep(resp, u, max_articles, acc) ==
    LET r == TryFeed(resp, u, max_articles, acc) IN
    [ articles |-> r.articles,
      caught   |-> r.exc # NoException /\ ExceptCatches(r.exc),
      escaped  |-> r.exc # NoException /\ ~ExceptCatches(r.exc),
      exc      |-> r.exc ]

\* what one iteration leaves in the record of the feeds handled: the URL,
\* whether the except branch was taken, and the articles it appended
FetchLogEntry(u, s, before) ==
    [ url |-> u, caught |-> s.caught,
      added |-> SubSeq(s.articles, Len(before) + 1, Len(s.articles)) ]

\* `for feed_url in feed_urls` as a whole: the articles collected, whether an
\* exception escaped, and the feeds handled (one feedparser.parse call each)
RECURSIVE FetchLoop(_, _, _, _)
FetchLoop(feeds, max_articles, acc, log) ==
    IF feeds = << >> THEN [ articles |-> acc, escaped |-> FALSE, log |-> log ]
    ELSE LET u == Head(feeds).url
             s == FetchFeedStep(Head(feeds).resp, u, max_articles, acc)
             log2 == Append(log, FetchLogEntry(u, s, acc))
         IN
         IF s.escaped THEN [ articles |-> s.articles, escaped |-> TRUE, log |-> log2 ]
         ELSE FetchLoop(Tail(feeds), max_articles, s.articles, log2)

\* fetch_news(feed_urls, max_articles)
fetch_news(feeds, max_articles) == FetchLoop(feeds, max_articles, << >>, << >>)

-----------------------------------------------------------------------------
(* format_briefing: the message as a sequence of pieces *)

Piece(k, a, b, c, n) == [ kind |-> k, text |-> a, link |-> b, source |-> c, count |-> n ]

Blank == << "", "", 0 >>

\* the header line with the date
HeaderPiece == Piece("header", Blank, Blank, Blank, 0)

\* f"*--- {category.upper()} ---*\n"
HeadingPiece(category) == Piece("heading", << Upper(category), "", 0 >>, Blank, Blank, 0)

\* the title line and the detail line of one article
ArticlePiece(article) ==
    Piece("article", article.title, article.link, article.source, 0)

\* the "\n" closing a category
GapPiece == Piece("gap", Blank, Blank, Blank, 0)

\* the rule above the footer
RulePiece == Piece("rule", Blank, Blank, Blank, 0)

\* f"Total articles: {total_articles} | Generated at ..."
FooterPiece(total) == Piece("footer", Blank, Blank, Blank, total)

\* variant of EmitArticles: the counter goes up once per category
RECURSIVE EmitArticlesCountOnce(_, _, _)
EmitArticlesCountOnce(msg, total, arts) ==
    IF arts = << >> THEN [ message |-> msg, total |-> total + 1 ]
    ELSE EmitArticlesCountOnce(Append(msg, ArticlePiece(Head(arts))), total, Tail(arts))

\* the inner loop `for article in category_articles`
RECURSIVE EmitArticles(_, _, _)
EmitArticles(msg, total, arts) ==
    IF arts = << >> THEN [ message |-> msg, total |-> total ]
    ELSE EmitArticles(Append(msg, ArticlePiece(Head(arts))), total + 1, Tail(arts))

\* variant of FormatCategory: the heading is written for an empty category too
FormatCategoryAlwaysHeading(msg, total, category, category_articles) ==
    LET r == EmitArticles(Append(msg, HeadingPiece(category)), total,
                          category_articles)
    IN  [ message |-> Append(r.message, GapPiece), total |-> r.total ]

\* the body of `for category, feeds in RSS_FEEDS.items()` once fetch_news returned
FormatCategory(msg, total, category, category_articles) ==
    IF category_articles # << >>
    THEN LET r == EmitArticles(Append(msg, HeadingPiece(category)), total,
                               category_articles)
         IN  [ message |-> Append(r.message, GapPiece), total |-> r.total ]
    ELSE [ message |-> msg, total |-> total ]

\* the footer
FormatFooter(msg, total) == msg \o << RulePiece, FooterPiece(total) >>

-----------------------------------------------------------------------------
(* network calls *)

\* feedparser.parse(feed_url)
GetCall(u) == [ op |-> "GET", url |-> u, body |-> << >>, status |-> 0 ]

\* requests.post(SLACK_WEBHOOK_URL, json={'text': message, ...})
\* status: the HTTP status answered, 0 when the call raised
PostCall(u, msg, o) == [ op |-> "POST", url |-> u, body |-> msg, status |-> o.status ]

\* what requests.post does: it returns a response or raises
PostOutcomes ==
    { [ status |-> st, exc |-> NoException ] : st \in Statuses } \cup
    { [ status |-> 0, exc |-> e ] : e \in { "ConnectionError", "Timeout" } }

\* variant of PostResult: every 2xx status counts as delivered
PostResultAny2xx(o) ==
    IF o.exc # NoException
    THEN [ value |-> FALSE, escaped |-> ~ExceptCatches(o.exc) ]
    ELSE [ value |-> (o.status >= 200 /\ o.status < 300), escaped |-> FALSE ]

\* the try block of send_to_slack: True on status 200, False on any other
\* status and on a caught exception
PostResult(o) ==
    IF o.exc # NoException
    THEN [ value |-> FALSE, escaped |-> ~ExceptCatches(o.exc) ]
    ELSE [ value |-> (o.status = 200), escaped |-> FALSE ]

-----------------------------------------------------------------------------
(* Initial states *)

NCategories == Len(RSS_FEEDS)

InitRunVars ==
    /\ pc = "start"
    /\ cat_i = 1
    /\ url_i = 1
    /\ articles = << >>
    /\ message = << >>
    /\ total_articles = 0
    /\ returned = << >>
    /\ fetch_log = << >>
    /\ net = << >>
    /\ success = "unset"
    /\ exit_code = -1
    /\ fault = NoException

\* the process has just been started: python news_bot.py, on the committed
\* file or on its lines 1 to 150
InitRun ==
    /\ program \in { CommittedFile, ProgramLines }
    /\ mode = "run"
    /\ SLACK_WEBHOOK_URL \in WebhookValues
    /\ InitRunVars
    /\ call_in = [ feeds |-> << >>, cap |-> BriefingCap ]
    /\ call_out = [ done |-> FALSE, articles |-> << >>, escaped |-> FALSE ]

\* fetch_news is about to be called on some list of feeds with some cap
InitCall ==
    /\ program = ProgramLines
    /\ mode = "call"
    /\ SLACK_WEBHOOK_URL = None
    /\ InitRunVars
    /\ \E n \in 0..MaxUrls :
          \E rs \in [ 1..n -> UNION { CallResponses(CallUrl(p)) : p \in 1..n } ] :
             /\ \A p \in 1..n : rs[p] \in CallResponses(CallUrl(p))
             /\ \E c \in 1..MaxCap :
                   call_in = [ feeds |-> CallFeeds(rs), cap |-> c ]
    /\ call_out = [ done |-> FALSE, articles |-> << >>, escaped |-> FALSE ]

Init == InitRun \/ InitCall

-----------------------------------------------------------------------------
(* main(), step by step *)

\* the exit of the interpreter on an uncaught exception
Crash(e) ==
    /\ fault' = e
    /\ exit_code' = 1
    /\ pc' = "exited"

\* the interpreter compiles the file; when it can, it executes the module
\* level (imports, SLACK_WEBHOOK_URL, RSS_FEEDS, the defs) and reaches the
\* call of main(); when it cannot, the process ends with a SyntaxError
Compile ==
    /\ mode = "run" /\ pc = "start"
    /\ IF Compiles(program)
       THEN pc' = "main" /\ UNCHANGED << exit_code, fault >>
       ELSE Crash(SyntaxError)
    /\ UNCHANGED << program, mode, SLACK_WEBHOOK_URL, cat_i, url_i, articles,
                    message, total_articles, returned, fetch_log, net, success,
                    call_in, call_out >>

\* main() starts and enters format_briefing: header written, counter zeroed
MainStart ==
    /\ mode = "run" /\ pc = "main"
    /\ message' = << HeaderPiece >>
    /\ total_articles' = 0
    /\ cat_i' = 1
    /\ pc' = "category"
    /\ UNCHANGED << program, mode, SLACK_WEBHOOK_URL, url_i, articles, returned, fetch_log,
                    net, success, exit_code, fault, call_in, call_out >>

\* format_briefing takes the next category and calls fetch_news on its feeds
BeginCategory ==
    /\ mode = "run" /\ pc = "category" /\ cat_i <= NCategories
    /\ articles' = << >>
    /\ url_i' = 1
    /\ pc' = "fetch"
    /\ UNCHANGED << program, mode, SLACK_WEBHOOK_URL, cat_i, message, total_articles,
                    returned, fetch_log, net, success, exit_code, fault,
                    call_in, call_out >>

\* fetch_news handles the next feed URL of the category
FetchFeed ==
    /\ mode = "run" /\ pc = "fetch" /\ url_i <= Len(RSS_FEEDS[cat_i].feeds)
    /\ LET u == RSS_FEEDS[cat_i].feeds[url_i] IN
       \E resp \in RunResponses(u) :
          LET s == FetchFeedStep(resp, u, BriefingCap, articles) IN
          /\ net' = Append(net, GetCall(u))
          /\ articles' = s.articles
          /\ fetch_log' = Append(fetch_log, FetchLogEntry(u, s, articles))
          /\ IF s.escaped
             THEN Crash(s.exc) /\ UNCHANGED url_i
             ELSE /\ url_i' = url_i + 1
                  /\ UNCHANGED << pc, exit_code, fault >>
    /\ UNCHANGED << program, mode, SLACK_WEBHOOK_URL, cat_i, message, total_articles,
                    returned, success, call_in, call_out >>

\* fetch_news returns; format_briefing writes the category and moves on
EndCategory ==
    /\ mode = "run" /\ pc = "fetch" /\ url_i > Len(RSS_FEEDS[cat_i].feeds)
    /\ LET r == FormatCategory(message, total_articles,
                               RSS_FEEDS[cat_i].category, articles) IN
       /\ message' = r.message
       /\ total_articles' = r.total
    /\ returned' = Append(returned, articles)
    /\ cat_i' = cat_i + 1
    /\ pc' = "category"
    /\ UNCHANGED << program, mode, SLACK_WEBHOOK_URL, url_i, articles, fetch_log, net,
                    success, exit_code, fault, call_in, call_out >>

\* format_briefing writes the footer and returns the message to main
Footer ==
    /\ mode = "run" /\ pc = "category" /\ cat_i > NCategories
    /\ message' = FormatFooter(message, total_articles)
    /\ pc' = "send"
    /\ UNCHANGED << program, mode, SLACK_WEBHOOK_URL, cat_i, url_i, articles,
                    total_articles, returned, fetch_log, net, success, exit_code,
                    fault, call_in, call_out >>

\* variant of SendToSlack: a POST that did not answer 200 is sent again
SendToSlackRetry ==
    /\ mode = "run" /\ pc = "send"
    /\ IF Falsy(SLACK_WEBHOOK_URL)
       THEN /\ exit_code' = 1
            /\ pc' = "exited"
            /\ UNCHANGED << net, success, fault >>
       ELSE \E o1 \in PostOutcomes, o2 \in PostOutcomes :
              LET r1 == PostResult(o1)
                  r2 == PostResult(o2)
                  call1 == PostCall(SLACK_WEBHOOK_URL, message, o1)
                  call2 == PostCall(SLACK_WEBHOOK_URL, message, o2)
              IN
              /\ net' = IF r1.value THEN Append(net, call1)
                                    ELSE net \o << call1, call2 >>
              /\ success' = IF r1.value \/ r2.value THEN "True" ELSE "False"
              /\ pc' = "finish"
              /\ UNCHANGED << exit_code, fault >>
    /\ UNCHANGED << program, mode, SLACK_WEBHOOK_URL, cat_i, url_i, articles, message,
                    total_articles, returned, fetch_log, call_in, call_out >>

\* send_to_slack(briefing): sys.exit(1) without a webhook URL, else one POST
SendToSlack ==
    /\ mode = "run" /\ pc = "send"
    /\ IF Falsy(SLACK_WEBHOOK_URL)
       THEN /\ exit_code' = 1
            /\ pc' = "exited"
            /\ UNCHANGED << net, success, fault >>
       ELSE \E o \in PostOutcomes :
              LET r == PostResult(o) IN
              /\ net' = Append(net, PostCall(SLACK_WEBHOOK_URL, message, o))
              /\ IF r.escaped
                 THEN Crash(o.exc) /\ UNCHANGED success
                 ELSE /\ success' = IF r.value THEN "True" ELSE "False"
                      /\ pc' = "finish"
                      /\ UNCHANGED << exit_code, fault >>
    /\ UNCHANGED << program, mode, SLACK_WEBHOOK_URL, cat_i, url_i, articles, message,
                    total_articles, returned, fetch_log, call_in, call_out >>

\* main: sys.exit(0 if success else 1)
MainExit ==
    /\ mode = "run" /\ pc = "finish"
    /\ exit_code' = IF success = "True" THEN 0 ELSE 1
    /\ pc' = "exited"
    /\ UNCHANGED << program, mode, SLACK_WEBHOOK_URL, cat_i, url_i, articles, message,
                    total_articles, returned, fetch_log, net, success, fault,
                    call_in, call_out >>

\* a direct call fetch_news(call_in.feeds, call_in.cap): one
\* feedparser.parse call per feed URL handled, then the return
CallFetchNews ==
    /\ mode = "call" /\ ~call_out.done
    /\ LET r == fetch_news(call_in.feeds, call_in.cap) IN
       /\ call_out' = [ done |-> TRUE, articles |-> r.articles,
                        escaped |-> r.escaped ]
       /\ fetch_log' = fetch_log \o r.log
       /\ net' = net \o [ k \in 1..Len(r.log) |-> GetCall(r.log[k].url) ]
    /\ UNCHANGED << program, mode, SLACK_WEBHOOK_URL, pc, cat_i, url_i, articles,
                    message, total_articles, returned, success, exit_code,
                    fault, call_in >>

Next ==
    \/ Compile
    \/ MainStart
    \/ BeginCategory
    \/ FetchFeed
    \/ EndCategory
    \/ Footer
    \/ SendToSlack
    \/ MainExit
    \/ CallFetchNews

\* runs of main() and direct calls of fetch_news
Spec == Init /\ [][Next]_vars

\* the steps of a run of main()
RunNext ==
    \/ Compile
    \/ MainStart
    \/ BeginCategory
    \/ FetchFeed
    \/ EndCategory
    \/ Footer
    \/ SendToSlack
    \/ MainExit

\* runs of main() only
RunSpec == InitRun /\ [][RunNext]_vars

\* runs of main() in which the interpreter keeps executing: a statement that
\* can be executed is executed (every network call returns or raises)
FairSpec == RunSpec /\ WF_vars(RunNext)

\* direct calls of fetch_news only
CallSpec == InitCall /\ [][CallFetchNews]_vars

-----------------------------------------------------------------------------
(* Vocabulary of the properties *)

Min(a, b) == IF a < b THEN a ELSE b

RECURSIVE Flatten(_)
Flatten(ss) == IF ss = << >> THEN << >> ELSE Head(ss) \o Flatten(Tail(ss))

IsPrefix(a, b) == Len(a) <= Len(b) /\ a = SubSeq(b, 1, Len(a))

Remove(s, p) == SubSeq(s, 1, p - 1) \o SubSeq(s, p + 1, Len(s))

\* the feed was retrieved and parsed
Parsed(resp) == resp.parse = "ok"

\* the first min(cap, n) entries of a feed as Article records, in feed order
FirstEntries(feed, cap) ==
    [ i \in 1..Min(cap, Len(feed.resp.entries)) |->
        Article(feed.resp.entries[i], FeedTitle(feed.resp, feed.url)) ]

\* processing the feed raises: at the parse, at the source name, or at one
\* of the first min(cap, n) entries
Raises(feed, cap) ==
    \/ feed.resp.parse = "raise"
    \/ feed.resp.title = "raise"
    \/ \E i \in 1..Min(cap, Len(feed.resp.entries)) :
          feed.resp.entries[i].kind \in { "bad", "title_none" }

\* the feed URL is unreachable or answers malformed content: processing it
\* raises (at the parse, at the source name, or at one of its first
\* min(cap, n) entries), or feedparser.parse answers the empty result it
\* gives for a URL it could not retrieve
FeedFails(feed, cap) ==
    \/ Raises(feed, cap)
    \/ /\ feed.resp.parse = "ok"
       /\ feed.resp.title = "absent"
       /\ feed.resp.entries = << >>

\* what the feed leaves in `articles` when it is handled on its own
Kept(feed, cap) == FetchFeedStep(feed.resp, feed.url, cap, << >>).articles

\* the interpreter compiled the file and entered main(): a run of main
RunOfMain == mode = "run" /\ Compiles(program)

\* main() is past format_briefing
Assembled ==
    mode = "run" /\ pc \in { "send", "finish", "exited" } /\ fault = NoException

\* the pieces of the message of a kind
PiecesOf(msg, k) == SelectSeq(msg, LAMBDA x : x.kind = k)

\* the feed URLs of all categories, in category order then URL order
AllUrls == Flatten([ c \in 1..NCategories |-> RSS_FEEDS[c].feeds ])

\* the POST calls made so far
Posts == SelectSeq(net, LAMBDA c : c.op = "POST")

\* the process ended through sys.exit or an uncaught exception
Exited == mode = "run" /\ pc = "exited"

-----------------------------------------------------------------------------
(* Properties *)

\* C1: when SLACK_WEBHOOK_URL is absent the process makes no network call at
\* all (no feed fetch, no POST) and exits with a non-zero code.
C1_NoNetworkWithoutWebhook ==
    (mode = "run" /\ Falsy(SLACK_WEBHOOK_URL)) =>
        /\ net = << >>
        /\ pc = "exited" => exit_code # 0

\* C2: the exit code is 0 exactly when the webhook POST answered status 200;
\* for any other status, for an exception raised by the POST and for a
\* missing webhook URL it is 1.
C2_ExitCode ==
    Exited =>
        /\ exit_code \in { 0, 1 }
        /\ exit_code = 0 <=> \E i \in 1..Len(Posts) : Posts[i].status = 200
        /\ Falsy(SLACK_WEBHOOK_URL) => exit_code = 1

\* C2 witness: a run ended with code 0 after a POST answered 200
C2_Witness ==
    /\ Exited /\ exit_code = 0
    /\ \E i \in 1..Len(Posts) : Posts[i].status = 200

\* the call of fetch_news has returned
Returned == mode = "call" /\ call_out.done

\* C3 as stated: every URL that parses contributes exactly its first
\* min(cap, n) entries, in feed order, the URLs in the order given.
C3_EveryParsedFeedInFull ==
    Returned =>
        call_out.articles =
            Flatten([ p \in 1..Len(call_in.feeds) |->
                        IF Parsed(call_in.feeds[p].resp)
                        THEN FirstEntries(call_in.feeds[p], call_in.cap)
                        ELSE << >> ])

\* C3 amended: the result is the concatenation, in URL order, of one part
\* per URL; the part of a URL whose processing raises nothing is exactly its
\* first min(cap, n) entries in feed order (all of them when n < cap, none
\* when n = 0); the part of a URL whose processing raises is a prefix of them.
C3_CappedInOrder ==
    Returned =>
        \E len \in [ 1..Len(call_in.feeds) -> 0..call_in.cap ] :
            /\ \A p \in 1..Len(call_in.feeds) :
                  LET f == call_in.feeds[p] IN
                  /\ len[p] <= Len(FirstEntries(f, call_in.cap))
                  /\ ~Raises(f, call_in.cap) =>
                        len[p] = Min(call_in.cap, Len(f.resp.entries))
            /\ call_out.articles =
                  Flatten([ p \in 1..Len(call_in.feeds) |->
                              SubSeq(FirstEntries(call_in.feeds[p], call_in.cap),
                                     1, len[p]) ])

\* C3 witness: two feeds, none raising, the first with more entries than the
\* cap, and the result holds articles of both
C3_Witness ==
    /\ Returned
    /\ Len(call_in.feeds) = 2
    /\ \A p \in 1..2 : ~Raises(call_in.feeds[p], call_in.cap)
    /\ Len(call_in.feeds[1].resp.entries) > call_in.cap
    /\ Len(call_in.feeds[2].resp.entries) >= 1
    /\ Len(call_out.articles) = call_in.cap + Min(call_in.cap, Len(call_in.feeds[2].resp.entries))

\* C4: a feed URL that is unreachable or answers malformed content leaves the
\* results of the other URLs as they are (the result is that of the list
\* without the failing URL), the failure does not leave fetch_news, and the
\* briefing holds the articles of every feed that succeeded.
C4_FailureIsolated ==
    /\ Returned =>
          /\ ~call_out.escaped
          /\ net = [ p \in 1..Len(call_in.feeds) |-> GetCall(call_in.feeds[p].url) ]
          /\ \A p \in 1..Len(call_in.feeds) :
                FeedFails(call_in.feeds[p], call_in.cap) =>
                    call_out.articles =
                        fetch_news(Remove(call_in.feeds, p), call_in.cap).articles
    /\ fault \notin PyExceptions
    /\ Assembled =>
          \A k \in 1..Len(fetch_log) :
             ~fetch_log[k].caught =>
                 \A j \in 1..Len(fetch_log[k].added) :
                    \E m \in 1..Len(message) :
                       message[m] = ArticlePiece(fetch_log[k].added[j])

\* what the code does for a failing feed URL: the result is that of the list
\* without it when the URL failed before an article was appended, and in
\* every case the result of the list without it followed, at the place of
\* the URL, by the articles it appended before it failed; the failure does
\* not leave fetch_news and every URL of the list is fetched once, in order
FailureIsolatedUpToKept ==
    Returned =>
        /\ ~call_out.escaped
        /\ net = [ p \in 1..Len(call_in.feeds) |-> GetCall(call_in.feeds[p].url) ]
        /\ call_out.articles =
              Flatten([ p \in 1..Len(call_in.feeds) |->
                          Kept(call_in.feeds[p], call_in.cap) ])
        /\ \A p \in 1..Len(call_in.feeds) :
              (/\ FeedFails(call_in.feeds[p], call_in.cap)
               /\ Kept(call_in.feeds[p], call_in.cap) = << >>) =>
                  call_out.articles =
                      fetch_news(Remove(call_in.feeds, p), call_in.cap).articles

\* C9: a feed URL whose processing fails at any point contributes no
\* Article record, and the next URLs are processed.
C9_FailedUrlSkipped ==
    /\ Returned =>
          call_out.articles =
              Flatten([ p \in 1..Len(call_in.feeds) |->
                          IF Raises(call_in.feeds[p], call_in.cap)
                          THEN << >>
                          ELSE FirstEntries(call_in.feeds[p], call_in.cap) ])
    /\ Returned => Len(net) = Len(call_in.feeds)
    /\ \A k \in 1..Len(fetch_log) :
          fetch_log[k].caught => fetch_log[k].added = << >>

\* C5: the total written in the footer is the number of article blocks in
\* the message, which is the number of articles fetch_news returned over all
\* categories.
C5_FooterCount ==
    /\ mode = "run" => total_articles = Len(PiecesOf(message, "article"))
    /\ Assembled =>
          /\ Len(returned) = NCategories
          /\ PiecesOf(message, "footer") = << message[Len(message)] >>
          /\ message[Len(message)].count = Len(PiecesOf(message, "article"))
          /\ message[Len(message)].count = Len(Flatten(returned))

\* C5 witness: a briefing with articles, a feed that failed and a category
\* that returned nothing
C5_Witness ==
    /\ Assembled
    /\ \E k \in 1..Len(fetch_log) : fetch_log[k].caught
    /\ \E c \in 1..NCategories : returned[c] = << >>
    /\ message[Len(message)].count >= BriefingCap + 1

\* every configured feed was handled and ended in the except branch
AllFeedsFailed ==
    /\ Len(fetch_log) = Len(AllUrls)
    /\ \A k \in 1..Len(fetch_log) : fetch_log[k].caught

\* C6: when every feed of every category fails the message is the header
\* and the footer only, the total is 0, and the message is still delivered.
C6_AllFailedHeaderFooterOnly ==
    (Assembled /\ AllFeedsFailed) =>
        /\ message = << HeaderPiece, RulePiece, FooterPiece(0) >>
        /\ (pc \in { "finish", "exited" } /\ ~Falsy(SLACK_WEBHOOK_URL)) =>
              /\ Len(Posts) = 1
              /\ Posts[1].body = message

\* the pieces one category contributes to the message
Section(c) ==
    IF returned[c] = << >> THEN << >>
    ELSE << HeadingPiece(RSS_FEEDS[c].category) >>
         \o [ i \in 1..Len(returned[c]) |-> ArticlePiece(returned[c][i]) ]
         \o << GapPiece >>

\* position in fetch_log of the entry before the first feed of category c
RECURSIVE LogOffset(_)
LogOffset(c) == IF c = 1 THEN 0 ELSE LogOffset(c - 1) + Len(RSS_FEEDS[c - 1].feeds)

\* C7: a category has a heading exactly when fetch_news returned an article
\* for it; the headings are in the order of RSS_FEEDS, each followed by the
\* articles of the category, by feed then by entry.
C7_HeadingsInOrder ==
    Assembled =>
        /\ message = << HeaderPiece >>
                     \o Flatten([ c \in 1..NCategories |-> Section(c) ])
                     \o << RulePiece, FooterPiece(total_articles) >>
        /\ \A c \in 1..NCategories :
              /\ (\E m \in 1..Len(message) :
                     message[m] = HeadingPiece(RSS_FEEDS[c].category))
                 <=> returned[c] # << >>
              /\ returned[c] =
                    Flatten([ j \in 1..Len(RSS_FEEDS[c].feeds) |->
                                fetch_log[LogOffset(c) + j].added ])
              /\ \A j \in 1..Len(RSS_FEEDS[c].feeds) :
                    LET g == fetch_log[LogOffset(c) + j] IN
                    /\ g.url = RSS_FEEDS[c].feeds[j]
                    /\ \A i \in 1..Len(g.added) :
                          g.added[i].link = << "link", g.url, i >>

\* C7 witness: both feeds of the first category and the feed of the third
\* delivered articles, the second category returned nothing
C7_Witness ==
    /\ Assembled
    /\ fetch_log[1].added # << >>
    /\ fetch_log[2].added # << >>
    /\ returned[2] = << >>
    /\ returned[3] # << >>

\* the operation and URL of each network call
CallSigs(calls) == [ i \in 1..Len(calls) |-> << calls[i].op, calls[i].url >> ]

\* the network calls of a complete run, in order
ExpectedSigs ==
    [ i \in 1..Len(AllUrls) |-> << "GET", AllUrls[i] >> ]
    \o << << "POST", SLACK_WEBHOOK_URL >> >>

\* C8: in every run of main every configured feed is fetched exactly once,
\* in category order then URL order, one after another; the POST is made at
\* most once (no second attempt after a status other than 200 or an
\* exception), after every fetch and with the finished briefing.
C8_Sequential ==
    RunOfMain =>
        /\ IsPrefix(CallSigs(net), ExpectedSigs)
        /\ Len(Posts) <= 1
        /\ \A i \in 1..Len(net) :
              net[i].op = "POST" =>
                  /\ i = Len(AllUrls) + 1
                  /\ Len(returned) = NCategories
                  /\ net[i].body = message
                  /\ message[Len(message)].kind = "footer"
        /\ pc \in { "send", "finish", "exited" } => Len(net) >= Len(AllUrls)
        /\ (pc \in { "finish", "exited" } /\ ~Falsy(SLACK_WEBHOOK_URL)) =>
              Len(Posts) = 1

\* C8 witness: a run of main ended after a feed failed and the single POST
\* answered 500
C8_Witness ==
    /\ RunOfMain /\ Exited
    /\ \E k \in 1..Len(fetch_log) : fetch_log[k].caught
    /\ CallSigs(net) = ExpectedSigs
    /\ Len(Posts) = 1 /\ Posts[1].status = 500

\* no exception has escaped, and an ended process ended as main() ends it
NoUnhandledFault ==
    /\ fault = NoException
    /\ exit_code \in { -1, 0, 1 }
    /\ Exited =>
          /\ exit_code \in { 0, 1 }
          /\ Len(fetch_log) = Len(AllUrls)
          /\ success = "unset" => Falsy(SLACK_WEBHOOK_URL) /\ exit_code = 1
          /\ success = "False" => exit_code = 1

\* C10: every run of main terminates with exit code 0 or 1 and never with
\* an unhandled fault; feed and delivery failures do not end it early, only
\* a missing webhook URL does.
C10_Terminates ==
    /\ <>Exited
    /\ [](RunOfMain => NoUnhandledFault)

\* C10 witness: in a run of main every feed failed, the POST raised, and the
\* run ended with 1
C10_Witness ==
    /\ RunOfMain
    /\ Exited /\ exit_code = 1 /\ success = "False"
    /\ AllFeedsFailed
    /\ Len(Posts) = 1 /\ Posts[1].status = 0

\* the file as committed is not such a run: the interpreter ends with the
\* SyntaxError before main() is entered, with exit status 1 and no network call
CommittedFileEndsAtCompile ==
    (mode = "run" /\ ~Compiles(program) /\ pc # "start") =>
        /\ fault = SyntaxError
        /\ exit_code = 1
        /\ net = << >>

=============================================================================
